---- MODULE Spec2Model ----
(***************************************************************************)
(* A model of the single-page portfolio of src/app/page.tsx (the typed     *)
(* copy, lines 336-770; the untyped draft of lines 1-334 is the same code  *)
(* except where a comment says so).                                        *)
(*                                                                         *)
(* Strings of the source that hold characters outside ASCII are written    *)
(* with "-" for the dashes and hyphens and "U+2713" for the check mark.    *)
(* A value typed into a form control is a sequence of one-character        *)
(* strings, so that it can be inspected character by character.            *)
(***************************************************************************)
EXTENDS Integers, Sequences, FiniteSets, TLC

VARIABLES
    values,          \* the text held by each of the four form controls
    sent,            \* ContactForm's useState flag
    dom,             \* the rendered document, in document order
    requests,        \* the navigation requests the browser has made for the form
    onSubmitRuns,    \* how often onSubmit ran since the page loaded (saturating)
    lastEvent,       \* the last event the page handled
    inView,          \* per animated block: the viewport observer's isInView
    hasEntered,      \* per animated block: the observer's hasEnteredView
    pose,            \* per animated block: the style it rests at
    fired,           \* per animated block: entrance transitions started (saturating)
    sceneMounted,    \* whether the hero scene is mounted
    frameSubs,       \* the scene objects whose per-frame callback is registered
    rotation,        \* per scene object: its rotation angles
    frameCalls,      \* per scene object: runs of its per-frame callback (saturating)
    elapsed,         \* the render clock: time rendered since the scene was mounted
    frames,          \* the frames rendered since the scene was mounted
    camera,          \* the orbit camera: target and spherical offset from it
    context,         \* the canvas's rendering context: "ok" or "failed"
    suspended        \* whether the scene's children are suspended (still loading)

formVars == <<values, sent, dom, requests, onSubmitRuns>>
sectionVars == <<inView, hasEntered, pose, fired>>
sceneVars == <<sceneMounted, frameSubs, rotation, frameCalls, elapsed, frames, camera>>
heroVars == <<context, suspended>>
vars == <<formVars, sectionVars, sceneVars, heroVars, lastEvent>>

---------------------------------------------------------------------------
(* Bounds of the model.                                                    *)

MaxEmailLen == 3      \* longest text typed into the email control
MaxTextLen == 1       \* longest text typed into any other control
MaxRuns == 3          \* where the count of onSubmit runs saturates
MaxFires == 3         \* where the count of entrance transitions saturates
MaxCalls == 2         \* where the count of per-frame callback runs saturates
MaxElapsed == 40      \* the render clock stops here (ticks of 1/1024 s)
Precision == 8        \* bits of the significand of a number (the code's have 53)
Scale == 10           \* camera lengths are held in units of 1/Scale

\* The characters the model types.
EmailChars == {"a", "-", "@", "."}
TextChars == {"a"}
NotAnEmail == <<"n", "o", "t", "-", "a", "n", "-", "e", "m", "a", "i", "l">>
PastedEmails == {NotAnEmail, <<"a", "@", "b", ".", "c", "o">>, <<"a", "@", "b", ".", ".", "c">>}

---------------------------------------------------------------------------
(* Small helpers.                                                          *)

Min(a, b) == IF a < b THEN a ELSE b
Max(a, b) == IF a > b THEN a ELSE b

\* The elements of a sequence of sequences, in order.
RECURSIVE Flatten(_)
Flatten(ss) == IF ss = <<>> THEN <<>> ELSE Head(ss) \o Flatten(Tail(ss))

Texts(s) == [i \in 1..Len(s) |-> s[i].text]
Keys(s) == [i \in 1..Len(s) |-> s[i].key]
Attrs(s) == [i \in 1..Len(s) |-> s[i].attr]
Range(s) == {s[i] : i \in 1..Len(s)}

\* No two entries of a sequence are equal.
NoRepeat(s) == \A i, j \in 1..Len(s) : i # j => s[i] # s[j]

---------------------------------------------------------------------------
(* The static content.                                                     *)

NavLinks ==
    << [href |-> "#about", label |-> "About"],
       [href |-> "#projects", label |-> "Projects"],
       [href |-> "#skills", label |-> "Skills"],
       [href |-> "#contact", label |-> "Contact"] >>

SkillList ==
    << "React/Next.js", "Node.js", "TypeScript", "Tailwind CSS",
       "React Three Fiber", "PostgreSQL/MySQL", "Redis", "Docker", "CI/CD" >>

Roles ==
    << [period |-> "2024 - Present", title |-> "Full-stack Engineer",
        org |-> "Freelance", orgLink |-> "https://snehitaliya.dev",
        points |-> << "Shipped performant Next.js apps",
                      "Built 3D interfaces with R3F" >>],
       [period |-> "2023 - 2024", title |-> "Frontend Developer",
        org |-> "Product Studio", orgLink |-> "#",
        points |-> << "Component libraries & design systems",
                      "Accessibility & performance" >>] >>

Projects ==
    << [title |-> "AI Worksheet Pro",
        description |-> "Multi-curriculum generator with quizzes, vocabulary, and export workflows.",
        tags |-> << "React", "Node", "MySQL", "RAG" >>,
        href |-> "https://aiworksheetpro.com"],
       [title |-> "Gems Global Jewels",
        description |-> "Jewellery admin portal with dynamic SKUs, Cloudinary media, and Redis caching.",
        tags |-> << "React", "Express", "Redis", "Cloudinary" >>,
        href |-> "https://gemsglobaljewels.com"],
       [title |-> "ETL - Pet Rescue Charity",
        description |-> "Talend pipelines to Oracle star schema; analytics and dashboards.",
        tags |-> << "Talend", "Oracle", "SQL" >>,
        href |-> "#"],
       [title |-> "Realtime Dashboard",
        description |-> "WebSocket powered metrics with streaming charts and auth.",
        tags |-> << "Next.js", "WebSocket", "Redis" >>,
        href |-> "#"] >>

\* The four controls of the form, in document order.
\* The controls with the e-mail control left a plain text input.
FormControlsEmailAsText ==
    << [placeholder |-> "Full name", type |-> "text", required |-> TRUE, name |-> ""],
       [placeholder |-> "Email", type |-> "text", required |-> TRUE, name |-> ""],
       [placeholder |-> "Subject", type |-> "text", required |-> FALSE, name |-> ""],
       [placeholder |-> "Message", type |-> "textarea", required |-> TRUE, name |-> ""] >>

\* name is "" for a control without a name attribute (all four).
FormControls ==
    << [placeholder |-> "Full name", type |-> "text", required |-> TRUE, name |-> ""],
       [placeholder |-> "Email", type |-> "email", required |-> TRUE, name |-> ""],
       [placeholder |-> "Subject", type |-> "text", required |-> FALSE, name |-> ""],
       [placeholder |-> "Message", type |-> "textarea", required |-> TRUE, name |-> ""] >>

FullName == 1
Email == 2
Subject == 3
Message == 4

---------------------------------------------------------------------------
(* Rendering.  The document is the sequence of its elements in document    *)
(* order.  An element records its kind, its React key ("" when it has      *)
(* none), one attribute (the id of a section, the href of an anchor, the   *)
(* placeholder of a control), its own text, and the component instance it  *)
(* was rendered for.                                                       *)

El(kind, key, attr, text, parent) ==
    [kind |-> kind, key |-> key, attr |-> attr, text |-> text, parent |-> parent]

\* list.map(...) as children is written Flatten([i \in 1..Len(list) |-> ...]):
\* one rendering per entry, placed in the order of the entries.

TagPill(owner, t) == << El("span", t, "", t, owner) >>

\* A card that shows the first three tags only.
ProjectCardThreeTags(p) ==
    << El("a", "", p.href, "", p.title),
       El("h3", "", "", p.title, p.title),
       El("p", "", "", p.description, p.title) >>
    \o Flatten([i \in 1..Min(3, Len(p.tags)) |-> TagPill(p.title, p.tags[i])])

ProjectCard(p) ==
    << El("a", "", p.href, "", p.title),
       El("h3", "", "", p.title, p.title),
       El("p", "", "", p.description, p.title) >>
    \o Flatten([i \in 1..Len(p.tags) |-> TagPill(p.title, p.tags[i])])

\* A gallery keyed by the link of the project.
GalleryItemKeyedByHref(p) ==
    << El("motion.div", p.href, "", "", "projects") >> \o ProjectCard(p)

GalleryItem(p) ==
    << El("motion.div", p.title, "", "", "projects") >> \o ProjectCard(p)

Gallery == Flatten([i \in 1..Len(Projects) |-> GalleryItem(Projects[i])])

NavItem(l) ==
    << El("li", l.href, "", "", "nav"), El("a", "", l.href, l.label, "nav") >>

Navbar ==
    << El("nav", "", "", "", "main"), El("li", "", "", "Sneh", "nav") >>
    \o Flatten([i \in 1..Len(NavLinks) |-> NavItem(NavLinks[i])])

Hero ==
    << El("hero", "", "", "", "main"),
       El("canvas", "", "", "", "hero"),
       El("h1", "", "", "Sneh Italiya", "hero"),
       El("a", "", "#projects", "View Projects", "hero"),
       El("a", "", "#contact", "Contact", "hero"),
       El("a", "", "#", "GitHub", "hero"),
       El("a", "", "#", "LinkedIn", "hero") >>

SkillItem(s) == << El("div", s, "", s, "skills") >>

\* The grid filled from the end of the list.
SkillsReversed ==
    Flatten([i \in 1..Len(SkillList) |-> SkillItem(SkillList[Len(SkillList) + 1 - i])])

Skills == Flatten([i \in 1..Len(SkillList) |-> SkillItem(SkillList[i])])

PointItem(owner, p) == << El("li", p, "", p, owner) >>

RoleItem(r) ==
    << El("role", r.title, "", "", "experience"),
       El("span", "", "", r.period, r.title),
       El("a", "", r.orgLink, r.org, r.title),
       El("h3", "", "", r.title, r.title) >>
    \o Flatten([i \in 1..Len(r.points) |-> PointItem(r.title, r.points[i])])

Experience == Flatten([i \in 1..Len(Roles) |-> RoleItem(Roles[i])])

\* A label that ignores the flag.
ButtonLabelStatic(s) == "Send message"

ButtonLabel(s) == IF s THEN "Sent U+2713" ELSE "Send message"

ControlItem(c) == << El(c.type, "", c.placeholder, "", "form") >>

ContactForm(s) ==
    << El("form", "", "", "", "contact") >>
    \o Flatten([i \in 1..Len(FormControls) |-> ControlItem(FormControls[i])])
    \o << El("button", "", "submit", ButtonLabel(s), "form") >>

About ==
    << El("p", "", "", "Builder who loves shipping polished interfaces", "about"),
       El("stat", "", "", "5+", "about"),
       El("stat", "", "", "3D", "about"),
       El("stat", "", "", "A11y", "about") >>

Section(id, title, kicker, children) ==
    << El("section", "", id, "", "main"),
       El("h2", "", "", title, id),
       El("kicker", "", "", kicker, id) >>
    \o children

Divider == << El("divider", "", "", "", "main") >>

Footer ==
    << El("footer", "", "", "", "main"),
       El("a", "", "/resume.pdf", "view resume", "footer") >>

\* A shell with the skills placed above the projects.
Portfolio3DAppSkillsFirst(s) ==
    Navbar
    \o Hero
    \o Section("about", "About", "Introduction", About)
    \o Section("skills", "Skills", "Toolkit", Skills)
    \o Section("projects", "Projects", "Work", Gallery)
    \o Section("experience", "Experience", "Timeline", Experience)
    \o Section("contact", "Contact", "Let's build", ContactForm(s))
    \o Divider
    \o Footer

Portfolio3DApp(s) ==
    Navbar
    \o Hero
    \o Section("about", "About", "Introduction", About)
    \o Section("projects", "Projects", "Work", Gallery)
    \o Section("skills", "Skills", "Toolkit", Skills)
    \o Section("experience", "Experience", "Timeline", Experience)
    \o Section("contact", "Contact", "Let's build", ContactForm(s))
    \o Divider
    \o Footer

\* What a reader of the document sees.
Select(d, kind, parent) == SelectSeq(d, LAMBDA n : n.kind = kind /\ n.parent = parent)
SectionIds(d) == Attrs(SelectSeq(d, LAMBDA n : n.kind = "section"))
NavHrefs(d) == Attrs(Select(d, "a", "nav"))
\* The regions of the page shell, top to bottom: a section by its id, any
\* other region by its kind.
Regions(d) ==
    LET top == SelectSeq(d, LAMBDA n : n.parent = "main"
                                       /\ n.kind \in {"nav", "hero", "section", "footer"})
    IN  [i \in 1..Len(top) |-> IF top[i].kind = "section" THEN top[i].attr ELSE top[i].kind]
AnchorOf(id) == "#" \o id
ButtonText(d) == Texts(Select(d, "button", "form"))

---------------------------------------------------------------------------
(* The browser's constraint validation of the form (the form has no        *)
(* noValidate attribute, so a submit by the user validates first).         *)

Alnum ==
    {"a", "b", "c", "d", "e", "f", "g", "h", "i", "j", "k", "l", "m", "n", "o",
     "p", "q", "r", "s", "t", "u", "v", "w", "x", "y", "z",
     "0", "1", "2", "3", "4", "5", "6", "7", "8", "9"}

\* the characters of the local part of an address (the apostrophe and the
\* backquote, which the pattern also allows, cannot be written here)
AText ==
    Alnum \cup {".", "!", "#", "$", "%", "&", "*", "+", "/", "=", "?", "^",
                "_", "{", "|", "}", "~", "-"}

\* A valid e-mail address as input type=email checks it: a local part of one
\* or more atext characters, "@", and a domain of labels separated by ".",
\* each label alphanumeric with inner hyphens.
IsValidEmail(v) ==
    \E i \in 1..Len(v) :
        /\ v[i] = "@"
        /\ LET local == SubSeq(v, 1, i - 1)
               domain == SubSeq(v, i + 1, Len(v))
           IN  /\ Len(local) >= 1
               /\ \A k \in 1..Len(local) : local[k] \in AText
               /\ Len(domain) >= 1
               /\ \A k \in 1..Len(domain) : domain[k] \in Alnum \cup {"-", "."}
               /\ domain[1] \in Alnum
               /\ domain[Len(domain)] \in Alnum
               /\ \A k \in 2..(Len(domain) - 1) :
                      domain[k] = "." =>
                          domain[k - 1] \in Alnum /\ domain[k + 1] \in Alnum

ControlValid(c, v) ==
    /\ c.required => v # <<>>
    /\ (c.type = "email" /\ v # <<>>) => IsValidEmail(v)

CheckValidity(vals) ==
    \A i \in 1..Len(FormControls) : ControlValid(FormControls[i], vals[i])

\* The entries a form submission would carry: the controls that have a name.
FormDataSet(vals) ==
    LET named == SelectSeq([i \in 1..Len(FormControls) |-> i],
                           LAMBDA i : FormControls[i].name # "")
    IN  [k \in 1..Len(named) |->
            [name |-> FormControls[named[k]].name, value |-> vals[named[k]]]]

---------------------------------------------------------------------------
(* Section: the entrance animation of its two blocks, the motion.h2 and    *)
(* the motion.div.                                                         *)

Blocks == Range(SectionIds(Portfolio3DApp(FALSE))) \X {"h2", "div"}

InitialPose == [opacity |-> 0, y |-> 12]
WhileInViewPose == [opacity |-> 1, y |-> 0]
ViewportOnceUnset == FALSE
ViewportOnce == TRUE

\* The animation library's viewport observer, called with the observer's
\* state b = [inView, hasEntered, active] when the block's intersection with
\* the viewport is reported.  With once set, a block that entered the view
\* keeps "whileInView" active when it leaves.
OnIntersectionUpdate(b, isIntersecting, once) ==
    IF b.inView = isIntersecting
    THEN b
    ELSE IF once /\ ~isIntersecting /\ b.hasEntered
         THEN [b EXCEPT !.inView = isIntersecting]
         ELSE [inView |-> isIntersecting,
               hasEntered |-> b.hasEntered \/ isIntersecting,
               active |-> isIntersecting]

\* The style a block rests at: the whileInView target while that state is
\* active, the initial style otherwise.
PoseOf(active) == IF active THEN WhileInViewPose ELSE InitialPose

---------------------------------------------------------------------------
(* The hero scene: the three spinning objects and the orbit camera.        *)
(* The render clock counts ticks of 1/1024 second.  A rate is written in   *)
(* hundredths of a radian per second (30 for the literal 0.3).  An angle   *)
(* of rotation and a frame delta are binary floating-point numbers, as the *)
(* code's are: [m, e] stands for m * 2^e with m of Precision bits, and     *)
(* every product and sum is rounded to the nearest such number, ties to    *)
(* the even significand.  Camera angles are in degrees.                    *)

SceneObjects == {"knot", "tetraSolid", "tetraWire"}

RECURSIVE BitLen(_)
BitLen(n) == IF n = 0 THEN 0 ELSE 1 + BitLen(n \div 2)

Zero == [m |-> 0, e |-> 0]

\* The number nearest to n * 2^e, normalised.
RoundToPrecision(n, e) ==
    IF n = 0
    THEN Zero
    ELSE LET len == BitLen(n)
         IN  IF len <= Precision
             THEN [m |-> n * 2^(Precision - len), e |-> e - (Precision - len)]
             ELSE LET sh == len - Precision
                      q == n \div 2^sh
                      r == n % 2^sh
                      half == 2^(sh - 1)
                      up == r > half \/ (r = half /\ q % 2 = 1)
                      q2 == IF up THEN q + 1 ELSE q
                  IN  IF q2 = 2^Precision
                      THEN [m |-> 2^(Precision - 1), e |-> e + sh + 1]
                      ELSE [m |-> q2, e |-> e + sh]

\* a * b and a + b as the code computes them.
FMul(a, b) == RoundToPrecision(a.m * b.m, a.e + b.e)

FAdd(a, b) ==
    IF a.m = 0 THEN b
    ELSE IF b.m = 0 THEN a
    ELSE LET emin == Min(a.e, b.e)
         IN  RoundToPrecision(a.m * 2^(a.e - emin) + b.m * 2^(b.e - emin), emin)

\* The number a decimal literal num/den denotes: the nearest one (the last
\* bit is a sticky bit for the remainder of the division).
FromRatio(num, den) ==
    LET s == Precision + 2 + BitLen(den)
        q == (num * 2^s) \div den
        sticky == IF (num * 2^s) % den = 0 THEN 0 ELSE 1
    IN  RoundToPrecision(2 * q + sticky, 0 - (s + 1))

\* The literal of a rate given in hundredths, e.g. 0.3 for 30.
Rate(hundredths) == FromRatio(hundredths, 100)

\* The delta the render loop passes for a frame of d ticks, in seconds.
Seconds(d) == RoundToPrecision(d, 0 - 10)

TetraRateX == 30
TetraRateY == 50
KnotRateX == 25
KnotRateZ == 15

Deltas == {8, 16}

\* Frame lengths of faster and slower displays as well.
FineDeltas == {4, 8, 12, 16}

ZeroRotation == [x |-> Zero, y |-> Zero, z |-> Zero]

\* A callback that turns by a fixed step, the one of a frame of 16 ticks.
SpinningTetraFrameFixedStep(rot, delta) ==
    [rot EXCEPT !.x = FAdd(@, FMul(Seconds(16), Rate(TetraRateX))),
                !.y = FAdd(@, FMul(Seconds(16), Rate(TetraRateY)))]

\* rotation.x += delta * 0.3; rotation.y += delta * 0.5
SpinningTetraFrame(rot, delta) ==
    [rot EXCEPT !.x = FAdd(@, FMul(delta, Rate(TetraRateX))),
                !.y = FAdd(@, FMul(delta, Rate(TetraRateY)))]

\* rotation.x += delta * 0.25; rotation.z += delta * 0.15
FloatingKnotFrame(rot, delta) ==
    [rot EXCEPT !.x = FAdd(@, FMul(delta, Rate(KnotRateX))),
                !.z = FAdd(@, FMul(delta, Rate(KnotRateZ)))]

FrameCallback(o, rot, delta) ==
    IF o = "knot" THEN FloatingKnotFrame(rot, delta) ELSE SpinningTetraFrame(rot, delta)

\* A callback registered as a global effect of the render loop.
FrameHookGlobal(o) == "addEffect"

\* How an object registers its per-frame callback.
FrameHook(o) == "useFrame"

\* The renderer's hooks: a callback registered with useFrame is unsubscribed
\* when its component unmounts; a global effect (addEffect) is not.
ReleasedOnUnmount(hook) == hook = "useFrame"

MinDistance == 3
MaxDistanceTenfold == 8 * 10
MaxDistance == 8
EnablePan == FALSE

ISqrt(n) == CHOOSE r \in 0..n : r * r <= n /\ n < (r + 1) * (r + 1)

\* camera={{ position: [0, 1.2, 5.5] }}
CameraPosition == [x |-> 0, y |-> (12 * Scale) \div 10, z |-> (55 * Scale) \div 10]

\* The polar angle of that position, acos(1.2 / 5.63), in degrees.
InitialPolar == 78

ClampRadius(r) == Max(MinDistance * Scale, Min(MaxDistance * Scale, r))

\* The controls place the camera on a sphere around the target (the origin)
\* and clamp the radius on every update, the first one included.
InitialCamera ==
    [target |-> [x |-> 0, y |-> 0],
     radius |-> ClampRadius(ISqrt(CameraPosition.x * CameraPosition.x
                                  + CameraPosition.y * CameraPosition.y
                                  + CameraPosition.z * CameraPosition.z)),
     theta |-> 0,
     phi |-> InitialPolar]

\* The controls' three motions.  A dolly scales the radius by num/den.
Dolly(cam, num, den) == [cam EXCEPT !.radius = ClampRadius((@ * num) \div den)]

Rotate(cam, dTheta, dPhi) ==
    [cam EXCEPT !.theta = (@ + dTheta) % 360,
                !.phi = Max(0, Min(180, @ + dPhi))]

Pan(cam, dx, dy) ==
    IF EnablePan
    THEN [cam EXCEPT !.target = [x |-> @.x + dx, y |-> @.y + dy]]
    ELSE cam

\* The inputs the model draws.
ZoomFactors == {<<95, 100>>, <<100, 95>>, <<1, 4>>, <<4, 1>>}
DragAngles == {<<90, 0>>, <<270, 0>>, <<0, 45>>, <<0, -45>>}
PanOffsets == {<<1, 0>>, <<0, -1>>}

---------------------------------------------------------------------------
(* The hero's canvas: <Canvas><Suspense fallback={null}><PortfolioScene/>.   *)

\* What Suspense shows while its children are suspended: fallback={null},
\* nothing.
SuspenseFallback == {}

\* Whether an error boundary stands between the canvas and the root: the
\* source has none, neither in Hero nor in Portfolio3DApp nor in the layout.
CanvasErrorBoundary == FALSE

\* What the canvas holds.
CanvasContent(ctx, susp) ==
    IF ctx # "ok" THEN {} ELSE IF susp THEN SuspenseFallback ELSE SceneObjects

\* The document React commits.  The renderer cannot draw without a rendering
\* context and throws the failure into the component tree: an error boundary
\* around the canvas replaces the canvas by its (empty) fallback and keeps
\* the rest; without one React unmounts the whole root.
RenderPage(s, ctx, boundary) ==
    IF ctx = "ok"
    THEN Portfolio3DApp(s)
    ELSE IF boundary
         THEN SelectSeq(Portfolio3DApp(s), LAMBDA n : n.kind # "canvas")
         ELSE <<>>

---------------------------------------------------------------------------
(* ContactForm.                                                            *)

Event(type, prevented) == [type |-> type, defaultPrevented |-> prevented]

\* A handler that flips the flag.
OnSubmitToggle(e, s) ==
    [e |-> [e EXCEPT !.defaultPrevented = TRUE], sent |-> ~s]

\* A handler that leaves the default action alone.
OnSubmitNoPreventDefault(e, s) == [e |-> e, sent |-> TRUE]

\* onSubmit: e.preventDefault(); setSent(true).  The result is the event as
\* the handler leaves it and the next value of the state.
OnSubmit(e, s) ==
    [e |-> [e EXCEPT !.defaultPrevented = TRUE], sent |-> TRUE]

\* A form that takes the flag over from the instance before it.
InitialSentRestored(prev) == prev

\* The flag of a ContactForm that is mounted: useState(false), whatever the
\* instance before it held (prev).
InitialSent(prev) == FALSE

EmptyValues == [i \in 1..Len(FormControls) |-> <<>>]

CharsOf(i) == IF FormControls[i].type = "email" THEN EmailChars ELSE TextChars
MaxLenOf(i) == IF FormControls[i].type = "email" THEN MaxEmailLen ELSE MaxTextLen

\* The page as its components construct it.
Loaded ==
    /\ values = EmptyValues
    /\ sent = InitialSent(FALSE)
    /\ dom = Portfolio3DApp(InitialSent(FALSE))
    /\ onSubmitRuns = 0
    /\ inView = [b \in Blocks |-> FALSE]
    /\ hasEntered = [b \in Blocks |-> FALSE]
    /\ pose = [b \in Blocks |-> InitialPose]
    /\ fired = [b \in Blocks |-> 0]
    /\ sceneMounted = TRUE
    /\ frameSubs = SceneObjects
    /\ rotation = [o \in SceneObjects |-> ZeroRotation]
    /\ frameCalls = [o \in SceneObjects |-> 0]
    /\ elapsed = 0
    /\ frames = 0
    /\ camera = InitialCamera
    /\ context = "ok"
    /\ suspended = FALSE

\* The same construction as the next state of a step.
LoadPage ==
    /\ values' = EmptyValues
    /\ sent' = InitialSent(sent)
    /\ dom' = Portfolio3DApp(InitialSent(sent))
    /\ onSubmitRuns' = 0
    /\ inView' = [b \in Blocks |-> FALSE]
    /\ hasEntered' = [b \in Blocks |-> FALSE]
    /\ pose' = [b \in Blocks |-> InitialPose]
    /\ fired' = [b \in Blocks |-> 0]
    /\ sceneMounted' = TRUE
    /\ frameSubs' = SceneObjects
    /\ rotation' = [o \in SceneObjects |-> ZeroRotation]
    /\ frameCalls' = [o \in SceneObjects |-> 0]
    /\ elapsed' = 0
    /\ frames' = 0
    /\ camera' = InitialCamera
    /\ context' = "ok"
    /\ suspended' = FALSE

Init ==
    /\ Loaded
    /\ requests = {}
    /\ lastEvent = Event("load", FALSE)

\* The user types one character into a control.
KeyPress(i, c) ==
    /\ Len(values[i]) < MaxLenOf(i)
    /\ values' = [values EXCEPT ![i] = Append(@, c)]
    /\ lastEvent' = Event("input", FALSE)
    /\ UNCHANGED <<sent, dom, requests, onSubmitRuns, sectionVars, sceneVars, heroVars>>

\* The user pastes a whole address into the e-mail control.
Paste(v) ==
    /\ values' = [values EXCEPT ![Email] = v]
    /\ lastEvent' = Event("input", FALSE)
    /\ UNCHANGED <<sent, dom, requests, onSubmitRuns, sectionVars, sceneVars, heroVars>>

\* The user deletes the last character of a control.
Backspace(i) ==
    /\ values[i] # <<>>
    /\ values' = [values EXCEPT ![i] = SubSeq(@, 1, Len(@) - 1)]
    /\ lastEvent' = Event("input", FALSE)
    /\ UNCHANGED <<sent, dom, requests, onSubmitRuns, sectionVars, sceneVars, heroVars>>

\* The user presses the submit button and a control is invalid: the browser
\* reports it and fires "invalid", no submit event is dispatched.
SubmitBlocked ==
    /\ ~CheckValidity(values)
    /\ lastEvent' = Event("invalid", FALSE)
    /\ UNCHANGED <<values, sent, dom, requests, onSubmitRuns, sectionVars, sceneVars, heroVars>>

\* The user presses the submit button and every control is valid: the submit
\* event is dispatched to onSubmit, the component renders again, and the
\* browser runs the default action (a navigation that carries the form data
\* and loads the page anew) unless the handler prevented it.
SubmitDispatched ==
    /\ CheckValidity(values)
    /\ LET r == OnSubmit(Event("submit", FALSE), sent)
       IN  IF r.e.defaultPrevented
           THEN /\ sent' = r.sent
                /\ dom' = Portfolio3DApp(r.sent)
                /\ onSubmitRuns' = Min(onSubmitRuns + 1, MaxRuns)
                /\ lastEvent' = r.e
                /\ UNCHANGED <<values, requests, sectionVars, sceneVars, heroVars>>
           ELSE /\ requests' = requests \cup {FormDataSet(values)}
                /\ LoadPage
                /\ lastEvent' = Event("navigate", FALSE)

\* The user reloads the page: every component is constructed again.
PageLoad ==
    /\ LoadPage
    /\ lastEvent' = Event("load", FALSE)
    /\ UNCHANGED requests

---------------------------------------------------------------------------
(* Scrolling: the viewport observer reports for block b whether it         *)
(* intersects the viewport.                                                *)

\* One observer for the whole page: a report for one block updates them all.
IntersectAllBlocks(b, isIntersecting) ==
    LET old(c) == [inView |-> inView[c], hasEntered |-> hasEntered[c],
                   active |-> pose[c] = WhileInViewPose]
        new(c) == OnIntersectionUpdate(old(c), isIntersecting, ViewportOnce)
    IN  /\ inView' = [c \in Blocks |-> new(c).inView]
        /\ hasEntered' = [c \in Blocks |-> new(c).hasEntered]
        /\ pose' = [c \in Blocks |-> PoseOf(new(c).active)]
        /\ fired' = [c \in Blocks |->
                        IF new(c).active /\ ~old(c).active
                        THEN Min(fired[c] + 1, MaxFires) ELSE fired[c]]
        /\ lastEvent' = Event("scroll", FALSE)
        /\ UNCHANGED <<formVars, requests, sceneVars, heroVars>>

Intersect(b, isIntersecting) ==
    LET old == [inView |-> inView[b], hasEntered |-> hasEntered[b],
                active |-> pose[b] = WhileInViewPose]
        new == OnIntersectionUpdate(old, isIntersecting, ViewportOnce)
    IN  /\ inView' = [inView EXCEPT ![b] = new.inView]
        /\ hasEntered' = [hasEntered EXCEPT ![b] = new.hasEntered]
        /\ pose' = [pose EXCEPT ![b] = PoseOf(new.active)]
        /\ fired' = [fired EXCEPT ![b] =
                        IF new.active /\ ~old.active THEN Min(@ + 1, MaxFires) ELSE @]
        /\ lastEvent' = Event("scroll", FALSE)
        /\ UNCHANGED <<formVars, requests, sceneVars, heroVars>>

---------------------------------------------------------------------------
(* The hero scene.                                                         *)

\* One frame of the render loop, delta after the previous one: every
\* registered callback runs.  The object a callback mutates exists only
\* while the scene is mounted.
Frame(delta) ==
    /\ sceneMounted => elapsed + delta <= MaxElapsed
    /\ elapsed' = IF sceneMounted THEN elapsed + delta ELSE elapsed
    /\ frames' = IF sceneMounted THEN frames + 1 ELSE frames
    /\ rotation' = [o \in SceneObjects |->
                       IF o \in frameSubs /\ sceneMounted
                       THEN FrameCallback(o, rotation[o], Seconds(delta))
                       ELSE rotation[o]]
    /\ frameCalls' = [o \in SceneObjects |->
                         IF o \in frameSubs
                         THEN Min(frameCalls[o] + 1, MaxCalls)
                         ELSE frameCalls[o]]
    /\ lastEvent' = Event("frame", FALSE)
    /\ UNCHANGED <<formVars, requests, sectionVars, heroVars, sceneMounted, frameSubs, camera>>

SceneUnmount ==
    /\ sceneMounted
    /\ sceneMounted' = FALSE
    /\ frameSubs' = {o \in frameSubs : ~ReleasedOnUnmount(FrameHook(o))}
    /\ lastEvent' = Event("unmount", FALSE)
    /\ UNCHANGED <<formVars, requests, sectionVars, heroVars, rotation, frameCalls, elapsed,
                   frames, camera>>

SceneMount ==
    /\ ~sceneMounted
    /\ sceneMounted' = TRUE
    /\ frameSubs' = frameSubs \cup SceneObjects
    /\ rotation' = [o \in SceneObjects |-> ZeroRotation]
    /\ frameCalls' = [o \in SceneObjects |-> 0]
    /\ elapsed' = 0
    /\ frames' = 0
    /\ camera' = InitialCamera
    /\ lastEvent' = Event("mount", FALSE)
    /\ UNCHANGED <<formVars, requests, sectionVars, heroVars>>

CameraInput(type, cam) ==
    /\ sceneMounted
    /\ camera' = cam
    /\ lastEvent' = Event(type, FALSE)
    /\ UNCHANGED <<formVars, requests, sectionVars, heroVars,
                   sceneMounted, frameSubs, rotation, frameCalls, elapsed, frames>>

OrbitDrag(dTheta, dPhi) == CameraInput("orbit", Rotate(camera, dTheta, dPhi))
Zoom(num, den) == CameraInput("zoom", Dolly(camera, num, den))
PanInput(dx, dy) == CameraInput("pan", Pan(camera, dx, dy))

---------------------------------------------------------------------------
(* The canvas's rendering context and the loading of the scene.            *)

\* The page is loaded where the canvas gets no rendering context.
PageLoadContextFailed ==
    /\ context' = "failed"
    /\ suspended' = FALSE
    /\ dom' = RenderPage(FALSE, "failed", CanvasErrorBoundary)
    /\ values' = EmptyValues
    /\ sent' = FALSE
    /\ onSubmitRuns' = 0
    /\ inView' = [b \in Blocks |-> FALSE]
    /\ hasEntered' = [b \in Blocks |-> FALSE]
    /\ pose' = [b \in Blocks |-> InitialPose]
    /\ fired' = [b \in Blocks |-> 0]
    /\ sceneMounted' = FALSE
    /\ frameSubs' = {}
    /\ rotation' = [o \in SceneObjects |-> ZeroRotation]
    /\ frameCalls' = [o \in SceneObjects |-> 0]
    /\ elapsed' = 0
    /\ frames' = 0
    /\ camera' = InitialCamera
    /\ lastEvent' = Event("load", FALSE)
    /\ UNCHANGED requests

\* A child of the scene suspends (an asset is still loading): Suspense shows
\* its fallback in the children's place.
SceneSuspend ==
    /\ context = "ok"
    /\ ~suspended
    /\ suspended' = TRUE
    /\ lastEvent' = Event("suspend", FALSE)
    /\ UNCHANGED <<formVars, requests, sectionVars, sceneVars, context>>

\* The asset has loaded: the children are shown again.
SceneResolve ==
    /\ suspended
    /\ suspended' = FALSE
    /\ lastEvent' = Event("resolve", FALSE)
    /\ UNCHANGED <<formVars, requests, sectionVars, sceneVars, context>>

\* The form can be used while it is in the document.
FormRendered == Select(dom, "form", "contact") # <<>>

\* The ContactForm is unmounted: its elements leave the document and with
\* them what was typed; its state is discarded (sent keeps the value the
\* discarded instance held, for the next instance to be compared with).
FormUnmount ==
    /\ FormRendered
    /\ dom' = SelectSeq(dom, LAMBDA n : n.kind # "form" /\ n.parent # "form")
    /\ values' = EmptyValues
    /\ lastEvent' = Event("formUnmount", FALSE)
    /\ UNCHANGED <<sent, requests, onSubmitRuns, sectionVars, sceneVars, heroVars>>

\* A ContactForm is mounted in the Contact section again: a new instance
\* with new state.
FormMount ==
    /\ dom # <<>>
    /\ ~FormRendered
    /\ sent' = InitialSent(sent)
    /\ dom' = Portfolio3DApp(InitialSent(sent))
    /\ values' = EmptyValues
    /\ lastEvent' = Event("formMount", FALSE)
    /\ UNCHANGED <<requests, onSubmitRuns, sectionVars, sceneVars, heroVars>>

---------------------------------------------------------------------------
Next ==
    \/ \E i \in 1..Len(FormControls) : \E c \in CharsOf(i) : KeyPress(i, c)
    \/ \E v \in PastedEmails : Paste(v)
    \/ \E i \in 1..Len(FormControls) : Backspace(i)
    \/ SubmitBlocked
    \/ SubmitDispatched
    \/ PageLoad

Spec == Init /\ [][Next]_vars

NextSections ==
    \/ \E b \in Blocks : \E isIntersecting \in BOOLEAN : Intersect(b, isIntersecting)
    \/ PageLoad

SpecSections == Init /\ [][NextSections]_vars

NextScene ==
    \/ \E delta \in Deltas : Frame(delta)
    \/ SceneUnmount
    \/ SceneMount
    \/ \E a \in DragAngles : OrbitDrag(a[1], a[2])
    \/ \E f \in ZoomFactors : Zoom(f[1], f[2])
    \/ \E d \in PanOffsets : PanInput(d[1], d[2])
    \/ PageLoad

SpecScene == Init /\ [][NextScene]_vars

\* The render loop alone: frames, and the scene unmounted and mounted.
NextFrames ==
    \/ \E delta \in FineDeltas : Frame(delta)
    \/ SceneUnmount
    \/ SceneMount
    \/ PageLoad

SpecFrames == Init /\ [][NextFrames]_vars

\* Loading the page with or without a rendering context, the scene's
\* loading, and the form used while it is rendered.
NextHero ==
    \/ PageLoadContextFailed
    \/ PageLoad
    \/ SceneSuspend
    \/ SceneResolve
    \/ \E i \in {FullName, Subject, Message} : \E c \in TextChars :
           FormRendered /\ KeyPress(i, c)
    \/ \E v \in PastedEmails : FormRendered /\ Paste(v)
    \/ FormRendered /\ SubmitBlocked
    \/ FormRendered /\ SubmitDispatched

SpecHero == Init /\ [][NextHero]_vars

\* The form used, unmounted and mounted again, and the page reloaded.
NextMount ==
    \/ FormUnmount
    \/ FormMount
    \/ PageLoad
    \/ \E i \in {FullName, Subject, Message} : \E c \in TextChars :
           FormRendered /\ KeyPress(i, c)
    \/ \E v \in PastedEmails : FormRendered /\ Paste(v)
    \/ FormRendered /\ SubmitBlocked
    \/ FormRendered /\ SubmitDispatched

SpecMount == Init /\ [][NextMount]_vars

\* Frames, submits and scrolling interleaved; the blocks scrolled here are
\* two of one section and one of another.
ScrolledBlocks == {<<"about", "h2">>, <<"about", "div">>, <<"contact", "div">>}

NextPage ==
    \/ \E delta \in Deltas : Frame(delta)
    \/ \E b \in ScrolledBlocks : \E isIntersecting \in BOOLEAN : Intersect(b, isIntersecting)
    \/ \E i \in {FullName, Message} : \E c \in TextChars : KeyPress(i, c)
    \/ \E v \in {w \in PastedEmails : IsValidEmail(w)} : Paste(v)
    \/ SubmitBlocked
    \/ SubmitDispatched
    \/ PageLoad

SpecPage == Init /\ [][NextPage]_vars

---------------------------------------------------------------------------
(* The claims.                                                             *)

\* The events that are a press of the form's submit button.
SubmitTypes == {"invalid", "submit", "navigate"}
Filled(v) == v[FullName] # <<>> /\ v[Message] # <<>> /\ IsValidEmail(v[Email])

\* C1: sent starts false; a submit with the required fields filled and a
\* well-formed e-mail sets sent to true; once true, sent stays true through
\* every later event for as long as the page is not loaded anew.
C1_SentLatches ==
    /\ ~sent
    /\ [][ /\ lastEvent'.type = "load" => ~sent'
           /\ (lastEvent'.type \in SubmitTypes /\ Filled(values)) => sent'
           /\ (sent /\ lastEvent'.type \notin {"load", "navigate"}) => sent' ]_vars

\* sent is true and onSubmit has just run again on the form that was sent.
C1_Witness == sent /\ onSubmitRuns >= 2 /\ lastEvent.type = "submit"

\* C2: a press of submit while the full name, the e-mail or the message is
\* empty, or the e-mail is not a well-formed address, dispatches nothing:
\* onSubmit does not run and sent keeps its value; with those three filled
\* and well-formed the submit is dispatched whatever the subject holds.
C2_InvalidSubmitBlocked ==
    [][ lastEvent'.type \in SubmitTypes =>
          /\ ( \/ values[FullName] = <<>>
               \/ values[Email] = <<>>
               \/ values[Message] = <<>>
               \/ ~IsValidEmail(values[Email]) )
             => /\ lastEvent'.type = "invalid"
                /\ sent' = sent
                /\ onSubmitRuns' = onSubmitRuns
          /\ Filled(values) => lastEvent'.type = "submit" ]_vars

\* Submit was pressed with "not-an-email" in the e-mail control and the
\* other required controls filled: the press was refused, sent is false.
C2_Witness ==
    /\ lastEvent.type = "invalid"
    /\ values[Email] = NotAnEmail
    /\ values[FullName] # <<>>
    /\ values[Message] # <<>>
    /\ ~sent
    /\ onSubmitRuns = 0

\* C3: once a block of a section rests at its visible style it never returns
\* to the hidden one before the next page load, and its entrance transition
\* starts at most once per page load.
C3_EntranceFiresOnce ==
    [][ \A b \in Blocks :
          /\ fired[b] <= 1
          /\ fired'[b] <= 1
          /\ (pose[b] = WhileInViewPose /\ lastEvent'.type # "load")
             => pose'[b] = WhileInViewPose ]_vars

\* Every block of every section has entered the viewport, and the heading of
\* "about" has left it again and is still visible, its transition run once.
C3_Witness ==
    /\ \A b \in Blocks : hasEntered[b] /\ fired[b] = 1
    /\ ~inView[<<"about", "h2">>]
    /\ pose[<<"about", "h2">>] = WhileInViewPose
    /\ inView[<<"contact", "div">>]

\* C4: from the unmount of the scene until it is mounted again no per-frame
\* callback runs and no rotation angle changes, whatever frames follow.
C4_NoFrameAfterUnmount ==
    [][ ~sceneMounted' =>
          /\ rotation' = rotation
          /\ frameCalls' = frameCalls ]_vars

\* The scene spun, was unmounted, and a frame followed.
C4_Witness ==
    /\ ~sceneMounted
    /\ lastEvent.type = "frame"
    /\ \A o \in SceneObjects : rotation[o].x.m > 0 /\ frameCalls[o] > 0

\* C5: the camera is always at least 3 and at most 8 units from its target,
\* and a pan input leaves the camera where it is.
C5_CameraDistanceClamped ==
    /\ 3 * Scale <= camera.radius /\ camera.radius <= 8 * Scale
    /\ [][ /\ 3 * Scale <= camera'.radius /\ camera'.radius <= 8 * Scale
           /\ lastEvent'.type = "pan" => camera' = camera ]_vars

\* The camera was zoomed out to the far limit, dragged, and then panned.
C5_Witness ==
    /\ lastEvent.type = "pan"
    /\ camera.radius = 8 * Scale
    /\ camera.theta # 0

\* The camera was zoomed in to the near limit.
C5_WitnessNear == lastEvent.type = "zoom" /\ camera.radius = 3 * Scale

\* C6: the anchors #about, #projects, #skills, #experience and #contact are
\* each the id of a rendered section, every navbar href is one of them, and
\* each of them is the href of a navbar link.
C6_Anchors == {"#about", "#projects", "#skills", "#experience", "#contact"}
C6_AnchorsMatchNavbar ==
    /\ C6_Anchors \subseteq {AnchorOf(id) : id \in Range(SectionIds(dom))}
    /\ Range(NavHrefs(dom)) \subseteq C6_Anchors
    /\ C6_Anchors \subseteq Range(NavHrefs(dom))

\* C7: the gallery holds exactly one card per project, in the order of the
\* list, and each card shows exactly the project's tags, in their order.
C7_GalleryMatchesProjects ==
    LET items == Select(dom, "motion.div", "projects")
    IN  /\ Keys(items) = [i \in 1..Len(Projects) |-> Projects[i].title]
        /\ Texts(SelectSeq(dom, LAMBDA n : n.kind = "h3" /\ n.parent \in Range(Keys(items))))
             = [i \in 1..Len(Projects) |-> Projects[i].title]
        /\ \A i \in 1..Len(Projects) :
              /\ Attrs(Select(dom, "a", Projects[i].title)) = << Projects[i].href >>
              /\ Texts(Select(dom, "span", Projects[i].title)) = Projects[i].tags

\* The document was rendered again after a submit and shows four cards, the
\* first with its four tags.
C7_Witness ==
    /\ sent
    /\ Len(Select(dom, "motion.div", "projects")) = 4
    /\ Len(Select(dom, "span", "AI Worksheet Pro")) = 4

\* C8: skills, roles, the points of each role and the navbar links are each
\* rendered one element per entry in the order of their list; the grid of
\* skills holds 9 entries.
C8_ListsRenderedInOrder ==
    /\ Texts(Select(dom, "div", "skills")) = SkillList
    /\ Keys(Select(dom, "div", "skills")) = SkillList
    /\ Len(Select(dom, "div", "skills")) = 9
    /\ Keys(Select(dom, "role", "experience")) = [i \in 1..Len(Roles) |-> Roles[i].title]
    /\ \A i \in 1..Len(Roles) :
          Texts(Select(dom, "li", Roles[i].title)) = Roles[i].points
    /\ NavHrefs(dom) = [i \in 1..Len(NavLinks) |-> NavLinks[i].href]
    /\ Texts(Select(dom, "a", "nav")) = [i \in 1..Len(NavLinks) |-> NavLinks[i].label]
    /\ Keys(SelectSeq(dom, LAMBDA n : n.kind = "li" /\ n.parent = "nav" /\ n.key # ""))
         = [i \in 1..Len(NavLinks) |-> NavLinks[i].href]

\* The document was rendered again after a submit and shows the 9 skills,
\* the 2 roles and the 4 navbar links.
C8_Witness ==
    /\ sent
    /\ Len(Select(dom, "div", "skills")) = 9
    /\ Len(Select(dom, "role", "experience")) = 2
    /\ Len(Select(dom, "a", "nav")) = 4

\* C9: the submit button reads "Send message" exactly when sent is false and
\* the confirmation label exactly when sent is true.
C9_LabelFollowsSent ==
    /\ Len(ButtonText(dom)) = 1
    /\ ~sent <=> ButtonText(dom) = << "Send message" >>
    /\ sent <=> ButtonText(dom) = << "Sent U+2713" >>

\* The form was sent and the button shows the confirmation label.
C9_Witness == sent /\ lastEvent.type = "submit" /\ ButtonText(dom) = << "Sent U+2713" >>

\* C10: a submit that reaches onSubmit has its default action prevented; no
\* press of submit makes the browser navigate or send anything; a press of
\* submit changes nothing but sent (and the label drawn from it).
C10_SubmitPreventsDefault ==
    [][ lastEvent'.type \in SubmitTypes =>
          /\ lastEvent'.type # "navigate"
          /\ lastEvent'.type = "submit" => lastEvent'.defaultPrevented
          /\ requests' = requests
          /\ values' = values
          /\ UNCHANGED <<sectionVars, sceneVars>>
          /\ \A i \in 1..Len(dom) : dom'[i] # dom[i] => dom[i].kind = "button"
          /\ Len(dom') = Len(dom) ]_vars

\* onSubmit ran on a filled form: the default action was prevented, nothing
\* was requested and the controls still hold what was typed.
C10_Witness ==
    /\ lastEvent.type = "submit"
    /\ lastEvent.defaultPrevented
    /\ requests = {}
    /\ Filled(values)
    /\ values[Subject] # <<>>


C12_RegionsInOrder ==
    Regions(dom) = << "nav", "hero", "about", "projects", "skills",
                      "experience", "contact", "footer" >>

\* The shell was rendered again by a submit and holds its eight regions.
C12_Witness ==
    /\ sent
    /\ lastEvent.type = "submit"
    /\ Len(Regions(dom)) = 8
    /\ Len(SectionIds(dom)) = 5


\* C13: no two projects have the same title, so the keys of the gallery are
\* pairwise distinct; and the keys are pairwise distinct within every other
\* rendered list: the tags of each project, the skills, the roles, the
\* points of each role, and the navbar links.
C13_KeysUnique ==
    /\ NoRepeat([i \in 1..Len(Projects) |-> Projects[i].title])
    /\ NoRepeat(Keys(Select(dom, "motion.div", "projects")))
    /\ \A i \in 1..Len(Projects) :
          NoRepeat(Keys(Select(dom, "span", Projects[i].title)))
    /\ NoRepeat(Keys(Select(dom, "div", "skills")))
    /\ NoRepeat(Keys(Select(dom, "role", "experience")))
    /\ \A i \in 1..Len(Roles) :
          NoRepeat(Keys(Select(dom, "li", Roles[i].title)))
    /\ NoRepeat(Keys(SelectSeq(dom, LAMBDA n : n.kind = "li" /\ n.parent = "nav"
                                               /\ n.key # "")))

\* The lists were rendered again by a submit: four gallery keys, nine skill
\* keys and four navbar keys, and a tag ("Redis") that two projects share.
C13_Witness ==
    /\ sent
    /\ Cardinality(Range(Keys(Select(dom, "motion.div", "projects")))) = 4
    /\ Cardinality(Range(Keys(Select(dom, "div", "skills")))) = 9
    /\ Cardinality({n \in Range(dom) : n.kind = "li" /\ n.parent = "nav" /\ n.key # ""}) = 4
    /\ Cardinality({n \in Range(dom) : n.kind = "span" /\ n.key = "Redis"}) = 2


\* An angle a, and the product rate * elapsed for a rate given in hundredths,
\* both multiplied by 100 * 2^(Precision + 12), which makes them integers.
AngleScaled(a) == a.m * 2^(a.e + Precision + 12) * 100
ProductScaled(hundredths) == hundredths * elapsed * 2^(Precision + 2)

\* The angle a differs from rate * elapsed by no more than the roundings of
\* the arithmetic allow: k = frames + 1 of them lie on the path of a summand
\* (the literal, the product, and the sums after the first), each of at most
\* 2^(-Precision) relative, which bounds the relative error by
\* k * u / (1 - k * u) with u = 2^(-Precision).
WithinRounding(a, hundredths) ==
    LET k == frames + 1
        x == AngleScaled(a)
        y == ProductScaled(hundredths)
        d == IF x >= y THEN x - y ELSE y - x
    IN  d * (2^Precision - k) <= k * y

\* C14 as stated: after any sequence of frames each rotating axis holds
\* exactly its rate times the sum of the frame deltas (0.3 and 0.5 for a
\* tetrahedron, 0.25 and 0.15 for the knot), and the third axis stays zero.
C14_ExactAngles ==
    /\ \A o \in {"tetraSolid", "tetraWire"} :
          /\ AngleScaled(rotation[o].x) = ProductScaled(30)
          /\ AngleScaled(rotation[o].y) = ProductScaled(50)
          /\ rotation[o].z = Zero
    /\ AngleScaled(rotation["knot"].x) = ProductScaled(25)
    /\ AngleScaled(rotation["knot"].z) = ProductScaled(15)
    /\ rotation["knot"].y = Zero
    /\ <<TetraRateX, TetraRateY, KnotRateX, KnotRateZ>> = <<30, 50, 25, 15>>

\* C14, amended: after any sequence of frames each rotating axis holds its
\* rate times the sum of the frame deltas up to the rounding of the
\* floating-point products and sums, however the time was split into
\* frames; the rates are 0.3 and 0.5 for a tetrahedron, 0.25 and 0.15 for the
\* knot; the third axis stays zero.
C14_AnglesFollowElapsed ==
    /\ \A o \in {"tetraSolid", "tetraWire"} :
          /\ WithinRounding(rotation[o].x, 30)
          /\ WithinRounding(rotation[o].y, 50)
          /\ rotation[o].z = Zero
    /\ WithinRounding(rotation["knot"].x, 25)
    /\ WithinRounding(rotation["knot"].z, 15)
    /\ rotation["knot"].y = Zero
    /\ <<TetraRateX, TetraRateY, KnotRateX, KnotRateZ>> = <<30, 50, 25, 15>>

\* Four frames of unequal length were rendered in 36 ticks and the x angle
\* of the tetrahedron is not exactly 0.3 * elapsed, while its y angle is
\* exactly 0.5 * elapsed.
C14_Witness ==
    /\ sceneMounted
    /\ lastEvent.type = "frame"
    /\ frames = 4
    /\ elapsed = 36
    /\ AngleScaled(rotation["tetraSolid"].x) # ProductScaled(30)
    /\ AngleScaled(rotation["tetraSolid"].y) = ProductScaled(50)


\* C15: whatever was submitted before, after a reload of the page and after
\* a remount of the form sent is false and the button reads "Send message";
\* while the form is unmounted there is no button.
C15_SentResetOnMount ==
    [][ /\ lastEvent'.type \in {"load", "formMount"} =>
              /\ ~sent'
              /\ ButtonText(dom') = << "Send message" >>
        /\ lastEvent'.type = "formUnmount" => ButtonText(dom') = <<>> ]_vars

\* The form was sent, unmounted and mounted again since the page loaded.
C15_Witness ==
    /\ lastEvent.type = "formMount"
    /\ onSubmitRuns >= 1
    /\ ~sent
    /\ ButtonText(dom) = << "Send message" >>


\* C16: under every interleaving of frames, submits and scrolling, a frame
\* changes nothing but the rotation of the meshes whose callback ran (and the
\* render clock), a press of submit changes nothing but sent (and the label
\* drawn from it), and a report of the viewport observer changes nothing but
\* the entrance state of one section.
C16_StateIndependent ==
    [][ /\ lastEvent'.type = "frame" =>
              /\ UNCHANGED <<formVars, sectionVars, heroVars, camera, sceneMounted, frameSubs>>
              /\ \A o \in SceneObjects \ frameSubs : rotation'[o] = rotation[o]
        /\ lastEvent'.type \in SubmitTypes =>
              /\ UNCHANGED <<values, requests, sectionVars, sceneVars, heroVars>>
              /\ Len(dom') = Len(dom)
              /\ \A i \in 1..Len(dom) : dom'[i] # dom[i] => dom[i].kind = "button"
        /\ lastEvent'.type = "scroll" =>
              /\ UNCHANGED <<formVars, sceneVars, heroVars>>
              /\ \E id \in Range(SectionIds(dom)) :
                    \A b \in Blocks :
                        b[1] # id => /\ inView'[b] = inView[b]
                                     /\ hasEntered'[b] = hasEntered[b]
                                     /\ pose'[b] = pose[b]
                                     /\ fired'[b] = fired[b] ]_vars

\* The form was sent, two frames were rendered, the heading of About is
\* visible, and the body of Contact has just entered the viewport.
C16_Witness ==
    /\ lastEvent.type = "scroll"
    /\ sent
    /\ frames >= 2
    /\ rotation["knot"].x.m > 0
    /\ pose[<<"about", "h2">>] = WhileInViewPose
    /\ inView[<<"contact", "div">>]
    /\ pose[<<"skills", "h2">>] = InitialPose

====
